---- MODULE Spec2Model ----
(***************************************************************************)
(* The forward tile rasterization pipeline of brush-render                 *)
(* (crates/brush-render/src/render.rs, render_forward).                    *)
(*                                                                         *)
(* The host code submits the GPU stages in a fixed order.  The state is    *)
(* the set of GPU buffers the host creates and the position of the         *)
(* pipeline.  The projection kernel is modelled thread by thread, because  *)
(* its threads share the atomic counter num_visible; every other stage has *)
(* threads that write disjoint elements and is one step.                   *)
(*                                                                         *)
(* Numbers.  Floats are fixed point integers: a depth is in units of       *)
(* 0.001, an opacity or alpha in units of 0.001 (ALPHA_ONE is 1.0), a      *)
(* transmittance in units of 0.00001 (T_ONE is 1.0).  Screen positions are *)
(* whole pixels.  A projected Gaussian is isotropic: its conic has         *)
(* xx = yy = conic/32 and xy = 0.                                          *)
(*                                                                         *)
(* Uninitialised memory.  create_tensor returns memory that is not         *)
(* cleared.  Every word of such a buffer reads as the stale word `junk`,   *)
(* which is chosen freely when the call starts.                            *)
(***************************************************************************)
EXTENDS Integers, Sequences, FiniteSets, TLC

(***************************************************************************)
(* Bounds of the model                                                     *)
(***************************************************************************)
\* Number of Gaussians of the call (means.dims()[0]).
NumPoints == 4
\* Stale words range over 0..MaxJunk.
MaxJunk == 1
\* Number of view futures read_views returns, at most.
MaxViews == 4
\* Number of COLMAP points, at most.
MaxPoints == 4

(***************************************************************************)
(* Program constants                                                       *)
(***************************************************************************)
\* shaders::rasterize::TILE_WIDTH
TILE_WIDTH == 16
\* clip_thresh: 0.01, in units of 0.001
CLIP_THRESH == 10
\* 256 * 4 * 65535, the cap on the intersection buffers
MAX_INTERSECTS_CAP == 67107840
\* 1.0 as an alpha and as a transmittance
ALPHA_ONE == 1000
T_ONE == 100000
\* clamp(alpha, 0, 0.999)
ALPHA_MAX == 999
\* the transmittance cutoff 1e-4
T_CUTOFF == 10
\* width of a sort key
KEY_BITS == 32
\* shaders::get_tile_bin_edges::VERTICAL_GROUPS
VERTICAL_GROUPS == 8

(***************************************************************************)
(* Inputs                                                                  *)
(***************************************************************************)
\* A Gaussian as the projection sees it: camera space depth z, projected
\* centre (x, y), screen radius r, conic, opacity after sigmoid and grey level
\* (both in units of 0.001).
Behind == [z |-> -5, x |-> 8, y |-> 0, r |-> 4, conic |-> 8, opac |-> 900, rgb |-> 800]
OffScreen == [z |-> 50, x |-> -50, y |-> 0, r |-> 4, conic |-> 8, opac |-> 900, rgb |-> 800]
BigA == [z |-> 20, x |-> 16, y |-> 0, r |-> 12, conic |-> 0, opac |-> 1000, rgb |-> 1000]
BigB == [z |-> 30, x |-> 15, y |-> 0, r |-> 12, conic |-> 1, opac |-> 1000, rgb |-> 400]
\* SmallC is on screen in an image at least 22 pixels wide and off screen in a
\* narrower one.
SmallC == [z |-> 40, x |-> 24, y |-> 0, r |-> 3, conic |-> 32, opac |-> 500, rgb |-> 200]

Gids == 0 .. (NumPoints - 1)

\* The Gaussian a row holds when it is in front of the camera and on screen:
\* the rows are not in depth order, and rows 0 and 3 have the same depth.
OnScreenKind(g) ==
    CASE g % 4 = 0 -> BigB
      [] g % 4 = 1 -> SmallC
      [] g % 4 = 2 -> BigA
      [] OTHER -> BigB

\* The scenes: every row is behind the camera, off screen, or its Gaussian.
Scenes == {f \in [Gids -> {Behind, OffScreen, BigA, BigB, SmallC}] :
              \A g \in Gids : f[g] \in {Behind, OffScreen, OnScreenKind(g)}}

\* Image sizes (width, height) in pixels.
ImgSizes == {<<33, 1>>, <<17, 17>>}

VARIABLES
    img_size,       \* (width, height)
    prims,          \* the input Gaussians, by global id
    background,     \* background grey level, in units of 0.001
    raster_u32,     \* packed u32 output requested
    junk,           \* the stale word uninitialised memory reads as
    pc,             \* the stage the host submits next
    projected,      \* ids of the projection threads that have run
    arranged_ids,
    global_from_compact_gid,
    xys, depths, colors, radii, conic_comps,
    num_tiles_hit,
    num_visible,
    compact_from_depthsort_gid,
    tiles_hit_sorted,   \* num_tiles_hit after the gather (render.rs rebinds the name)
    cum_tiles_hit,
    num_intersects,
    max_intersects,
    tile_id_from_isect,
    depthsort_gid_from_isect,
    tile_bins,
    out_img,
    final_index

\* The call through the autodiff backend and its backward pass.
VARIABLES
    rows,           \* dims()[0] of each of the six input tensors
    sh_cols,        \* sh_coeffs.dims()[1]
    tracked,        \* which of the six input nodes require a gradient
    bwd_groups,     \* tiles whose RasterizeBackwards workgroup has run
    hit_ids,
    v_xy_scatter, v_conic_scatter, v_colors_scatter,
    scatter_writer, \* history: the intersections whose row went to each scatter slot
    v_means, v_xys, v_scales, v_quats, v_coeffs, v_opac,
    grads           \* the gradient registered for each input node

\* The COLMAP loader (colmap.rs, load_dataset).  An Option is a sequence of
\* length at most one.
VARIABLES
    load_pc,            \* the loader's position
    handles,            \* the view futures, each with the outcome of its load
    subsample_frames,   \* load_args.subsample_frames
    eval_split_every,   \* load_args.eval_split_every
    view_i,             \* the counter i of the view stream
    train_views,
    eval_views,
    datasets,           \* the Datasets the view stream has emitted
    points_data,        \* the COLMAP points, in the order values() yields them
    subsample_points,   \* load_args.subsample_points
    positions,
    point_colors,       \* the local colors of the init stream
    from_raw            \* the arguments of the calls of Splats::from_raw

loader_vars == <<load_pc, handles, subsample_frames, eval_split_every, view_i,
                 train_views, eval_views, datasets, points_data,
                 subsample_points, positions, point_colors, from_raw>>

autodiff_vars == <<rows, sh_cols, tracked, bwd_groups, hit_ids, v_xy_scatter, v_conic_scatter,
                   v_colors_scatter, scatter_writer, v_means, v_xys, v_scales,
                   v_quats, v_coeffs, v_opac, grads>>

vars == <<img_size, prims, background, raster_u32, junk, pc, projected,
          arranged_ids, global_from_compact_gid, xys, depths, colors, radii,
          conic_comps, num_tiles_hit, num_visible, compact_from_depthsort_gid,
          tiles_hit_sorted, cum_tiles_hit, num_intersects, max_intersects,
          tile_id_from_isect, depthsort_gid_from_isect, tile_bins, out_img,
          final_index, autodiff_vars, loader_vars>>

\* No COLMAP dataset is being loaded.
LoaderIdle ==
    /\ load_pc = "idle"
    /\ handles = <<>>
    /\ subsample_frames = <<>>
    /\ eval_split_every = <<>>
    /\ view_i = 0
    /\ train_views = <<>>
    /\ eval_views = <<>>
    /\ datasets = <<>>
    /\ points_data = <<>>
    /\ subsample_points = <<>>
    /\ positions = <<>>
    /\ point_colors = <<>>
    /\ from_raw = <<>>

\* The six parents of the render op, in the order they are given to prepare.
Parents == <<"means", "xy_dummy", "log_scales", "quats", "sh_coeffs", "raw_opacities">>

ParentSet == {Parents[i] : i \in 1 .. Len(Parents)}

\* No gradient registered.
NoGrad == [name |-> "none", rows |-> <<>>, cols |-> 0]

(***************************************************************************)
(* Helpers                                                                 *)
(***************************************************************************)
Min(a, b) == IF a < b THEN a ELSE b
Max(a, b) == IF a > b THEN a ELSE b
Clamp(v, lo, hi) == Max(lo, Min(v, hi))

\* u32::div_ceil
DivCeil(a, b) == (a + b - 1) \div b

\* A buffer of n elements, all e.
Filled(n, e) == [i \in 0 .. (n - 1) |-> e]

\* create_tensor: n words of memory that is not cleared.
create_tensor(n) == Filled(n, junk)

\* A stale word read as a float, in units of 1/one: cleared memory reads 0.0,
\* any other stale word reads as 2.0.
StaleFloat(one) == 2 * junk * one

\* int_zeros: n words of cleared memory.
int_zeros(n) == Filled(n, 0)

\* A read of buf[i]; an index past the end reads the last element
\* (the shader runtime clamps it).
ReadAt(buf, n, i) == buf[Clamp(i, 0, n - 1)]

\* Divide screen into tiles.
tile_bounds == <<DivCeil(img_size[1], TILE_WIDTH), DivCeil(img_size[2], TILE_WIDTH)>>

num_points == NumPoints

num_tiles == tile_bounds[1] * tile_bounds[2]

(***************************************************************************)
(* Stage 1: projection                                                     *)
(***************************************************************************)
\* The clip threshold with the wrong sign.
clip_thresh_negated == -CLIP_THRESH

\* The uniform clip_thresh handed to ProjectSplats.
clip_thresh == CLIP_THRESH

\* The tile rectangle [minx, maxx) x [miny, maxy) of the disk (x, y, r),
\* clamped to the tile grid.
TileBBox(x, y, r) ==
    [minx |-> Clamp((x - r) \div TILE_WIDTH, 0, tile_bounds[1]),
     maxx |-> Clamp(((x + r) \div TILE_WIDTH) + 1, 0, tile_bounds[1]),
     miny |-> Clamp((y - r) \div TILE_WIDTH, 0, tile_bounds[2]),
     maxy |-> Clamp(((y + r) \div TILE_WIDTH) + 1, 0, tile_bounds[2])]

TileArea(bb) == Max(bb.maxx - bb.minx, 0) * Max(bb.maxy - bb.miny, 0)

\* Steps 1 and 6 of the projection: the clip on z, then the cull of a
\* bounding box entirely outside the image.
IsVisible(p) ==
    /\ ~(p.z < clip_thresh)
    /\ ~(\/ p.x + p.r < 0
         \/ p.x - p.r >= img_size[1]
         \/ p.y + p.r < 0
         \/ p.y - p.r >= img_size[2])

\* A write buf[i] = v; a write past the end is dropped.
WriteAt(buf, n, i, v) == IF i \in 0 .. (n - 1) THEN [buf EXCEPT ![i] = v] ELSE buf

\* The counter allocated with create_tensor instead of int_zeros.
num_visible_uninit == junk

\* num_visible starts as int_zeros([1]).
num_visible_init == 0

\* The threads ProjectSplats is dispatched over: [num_points].
ProjectDispatch == 0 .. (num_points - 1)

\* One thread of ProjectSplats.
ProjectThread(g) ==
    /\ pc = "ProjectSplats"
    /\ g \in ProjectDispatch \ projected
    /\ projected' = projected \cup {g}
    /\ arranged_ids' = WriteAt(arranged_ids, num_points, g, g)
    /\ IF IsVisible(prims[g])
       THEN LET p == prims[g]
                compact_gid == num_visible      \* atomic_add(num_visible, 1)
            IN /\ num_visible' = num_visible + 1
               /\ global_from_compact_gid' =
                      WriteAt(global_from_compact_gid, num_points, compact_gid, g)
               /\ xys' = WriteAt(xys, num_points, compact_gid, <<p.x, p.y>>)
               /\ depths' = WriteAt(depths, num_points, compact_gid, p.z)
               /\ colors' = WriteAt(colors, num_points, compact_gid,
                                    [rgb |-> p.rgb, a |-> p.opac])
               /\ radii' = WriteAt(radii, num_points, compact_gid, p.r)
               /\ conic_comps' = WriteAt(conic_comps, num_points, compact_gid, p.conic)
               /\ num_tiles_hit' = WriteAt(num_tiles_hit, num_points, compact_gid,
                                           TileArea(TileBBox(p.x, p.y, p.r)))
       ELSE UNCHANGED <<num_visible, global_from_compact_gid, xys, depths, colors,
                        radii, conic_comps, num_tiles_hit>>
    /\ pc' = IF projected' = ProjectDispatch THEN "DepthSort" ELSE pc
    /\ UNCHANGED autodiff_vars
    /\ UNCHANGED <<img_size, prims, background, raster_u32, junk,
                   compact_from_depthsort_gid, tiles_hit_sorted, cum_tiles_hit,
                   num_intersects, max_intersects, tile_id_from_isect,
                   depthsort_gid_from_isect, tile_bins, out_img, final_index>>
    /\ UNCHANGED loader_vars

(***************************************************************************)
(* brush_sort::radix_argsort                                               *)
(***************************************************************************)
\* A u32 word: bit 31 and the low 31 bits.
U32(n) == [hi |-> 0, lo |-> n]

\* bitcast_tensor of a float to u32: the sign bit, then exponent and
\* mantissa, which grow with the magnitude.
FloatBits(f) == [hi |-> IF f < 0 THEN 1 ELSE 0, lo |-> IF f < 0 THEN -f ELSE f]

RECURSIVE Pow2(_)
Pow2(n) == IF n = 0 THEN 1 ELSE 2 * Pow2(n - 1)

\* The low `bits` bits of a word, as (bit 31, low 31 bits).
LowBits(w, bits) ==
    [hi |-> IF bits >= KEY_BITS THEN w.hi ELSE 0,
     lo |-> IF bits >= KEY_BITS - 1 THEN w.lo ELSE w.lo % Pow2(bits)]

WordLess(a, b) == a.hi < b.hi \/ (a.hi = b.hi /\ a.lo < b.lo)

\* radix_argsort(keys, values, n_sort, bits): the first n_sort pairs, stably
\* sorted by the low `bits` bits of the key (rank[i] is where the scatter
\* puts pair i); the sorted buffers are fresh uninitialised buffers, so the
\* elements from n_sort on are stale.
radix_argsort(keys, values, len, n_sort, bits) ==
    LET n == Min(n_sort, len)
        low == [i \in 0 .. (n - 1) |-> LowBits(keys[i], bits)]
        rank == [i \in 0 .. (n - 1) |->
                    Cardinality({j \in 0 .. (n - 1) :
                        \/ WordLess(low[j], low[i])
                        \/ (j < i /\ low[j] = low[i])})]
        src == [s \in 0 .. (n - 1) |-> CHOOSE i \in 0 .. (n - 1) : rank[i] = s]
    IN [keys |-> [s \in 0 .. (len - 1) |->
                     IF s < n THEN keys[src[s]] ELSE U32(junk)],
        values |-> [s \in 0 .. (len - 1) |->
                     IF s < n THEN values[src[s]] ELSE junk]]

(***************************************************************************)
(* Stage 2: depth sort                                                     *)
(***************************************************************************)
\* A depth sort on the low four bits only.
DepthSortBitsLow == KEY_BITS \div 8

\* The number of key bits the depth sort is given.
DepthSortBits == 32

\* radix_argsort(bitcast_tensor(depths), arranged_ids, num_visible, 32).values
DepthSortResult ==
    radix_argsort([i \in 0 .. (num_points - 1) |-> FloatBits(depths[i])],
                  arranged_ids, num_points, num_visible, DepthSortBits).values

DepthSort ==
    /\ pc = "DepthSort"
    /\ compact_from_depthsort_gid' = DepthSortResult
    /\ pc' = "TilesPermute"
    /\ UNCHANGED autodiff_vars
    /\ UNCHANGED <<img_size, prims, background, raster_u32, junk, projected,
                   arranged_ids, global_from_compact_gid, xys, depths, colors,
                   radii, conic_comps, num_tiles_hit, num_visible,
                   tiles_hit_sorted, cum_tiles_hit, num_intersects,
                   max_intersects, tile_id_from_isect, depthsort_gid_from_isect,
                   tile_bins, out_img, final_index>>
    /\ UNCHANGED loader_vars

(***************************************************************************)
(* Stage 3: tile counts in depth order, prefix sum, sizes                  *)
(***************************************************************************)
\* The tile counts left in compact order: the gather skipped.
GatherSkipped == [i \in 0 .. (num_points - 1) |-> num_tiles_hit[i]]

\* int_gather(0, num_tiles_hit, compact_from_depthsort_gid): over all
\* num_points elements.
GatherTilesHit ==
    [i \in 0 .. (num_points - 1) |->
        ReadAt(num_tiles_hit, num_points, compact_from_depthsort_gid[i])]

RECURSIVE SumTo(_, _)
SumTo(f, i) == IF i < 0 THEN 0 ELSE f[i] + SumTo(f, i - 1)

\* brush_prefix_sum::prefix_sum: the inclusive scan.
prefix_sum(f, n) == [i \in 0 .. (n - 1) |-> SumTo(f, i)]

\* int_slice(cum_tiles_hit, [num_points - 1..num_points])
NumIntersectsOf(cum) == cum[num_points - 1]

\* The length read back from the device: num_intersects.
MaxIntersectsReadback == NumIntersectsOf(prefix_sum(GatherTilesHit, num_points))

\* (num_points * num_tiles).min(256 * 4 * 65535)
MaxIntersects == Min(num_points * num_tiles, MAX_INTERSECTS_CAP)

TilesPermute ==
    /\ pc = "TilesPermute"
    /\ tiles_hit_sorted' = GatherTilesHit
    /\ cum_tiles_hit' = prefix_sum(tiles_hit_sorted', num_points)
    /\ num_intersects' = NumIntersectsOf(cum_tiles_hit')
    /\ max_intersects' = MaxIntersects
    /\ pc' = "MapGaussiansToIntersect"
    /\ UNCHANGED autodiff_vars
    /\ UNCHANGED <<img_size, prims, background, raster_u32, junk, projected,
                   arranged_ids, global_from_compact_gid, xys, depths, colors,
                   radii, conic_comps, num_tiles_hit, num_visible,
                   compact_from_depthsort_gid, tile_id_from_isect,
                   depthsort_gid_from_isect, tile_bins, out_img, final_index>>
    /\ UNCHANGED loader_vars

(***************************************************************************)
(* Stage 4: intersection emission                                          *)
(***************************************************************************)
\* The threads MapGaussiansToIntersect is dispatched over: [num_points].
MapDispatch == 0 .. (num_points - 1)

\* The slot of thread d's first record: the end of the previous range.
IsectBase(d) == IF d = 0 THEN 0 ELSE cum_tiles_hit[d - 1]

\* The tile rectangle of depth-sorted Gaussian d.
IsectBBox(d) ==
    LET compact_gid == ReadAt(compact_from_depthsort_gid, num_points, d)
    IN TileBBox(xys[compact_gid][1], xys[compact_gid][2], radii[compact_gid])

\* The k-th tile of a rectangle, row by row.
TileOfRect(bb, k) ==
    LET w == bb.maxx - bb.minx
    IN (bb.miny + (k \div w)) * tile_bounds[1] + bb.minx + (k % w)

\* The threads that write: d < num_visible.
MapWriters == {d \in MapDispatch : d < num_visible}

\* The threads that write slot s.
SlotWriters(s) ==
    {d \in MapWriters : IsectBase(d) <= s /\ s < IsectBase(d) + TileArea(IsectBBox(d))}

\* The two intersection buffers after the kernel: create_tensor, then the
\* records of the writing threads.
MapGaussiansToIntersectResult ==
    LET rec == [s \in 0 .. (max_intersects - 1) |->
                   IF SlotWriters(s) = {}
                   THEN [tile |-> junk, gid |-> junk]
                   ELSE LET d == CHOOSE d \in SlotWriters(s) : TRUE
                        IN [tile |-> TileOfRect(IsectBBox(d), s - IsectBase(d)),
                            gid |-> d]]
    IN [tile_id |-> [s \in 0 .. (max_intersects - 1) |-> rec[s].tile],
        gid |-> [s \in 0 .. (max_intersects - 1) |-> rec[s].gid]]

MapGaussiansToIntersect ==
    /\ pc = "MapGaussiansToIntersect"
    /\ LET r == MapGaussiansToIntersectResult
       IN /\ tile_id_from_isect' = r.tile_id
          /\ depthsort_gid_from_isect' = r.gid
    /\ pc' = "TileSort"
    /\ UNCHANGED autodiff_vars
    /\ UNCHANGED <<img_size, prims, background, raster_u32, junk, projected,
                   arranged_ids, global_from_compact_gid, xys, depths, colors,
                   radii, conic_comps, num_tiles_hit, num_visible,
                   compact_from_depthsort_gid, tiles_hit_sorted, cum_tiles_hit,
                   num_intersects, max_intersects, tile_bins, out_img,
                   final_index>>
    /\ UNCHANGED loader_vars

(***************************************************************************)
(* Stage 5: tile sort                                                      *)
(***************************************************************************)
RECURSIVE BitLength(_)
BitLength(n) == IF n = 0 THEN 0 ELSE 1 + BitLength(n \div 2)

\* One key bit fewer than the tile count needs.
TileSortBitsShort == BitLength(num_tiles) - 1

\* u32::BITS - num_tiles.leading_zeros()
TileSortBits == BitLength(num_tiles)

\* radix_argsort(tile_id_from_isect, depthsort_gid_from_isect, num_intersects, bits)
TileSortResult ==
    radix_argsort([s \in 0 .. (max_intersects - 1) |-> U32(tile_id_from_isect[s])],
                  depthsort_gid_from_isect, max_intersects, num_intersects,
                  TileSortBits)

TileSort ==
    /\ pc = "TileSort"
    /\ LET r == TileSortResult
       IN /\ tile_id_from_isect' = [s \in 0 .. (max_intersects - 1) |-> r.keys[s].lo]
          /\ depthsort_gid_from_isect' = r.values
    /\ pc' = "GetTileBinEdges"
    /\ UNCHANGED autodiff_vars
    /\ UNCHANGED <<img_size, prims, background, raster_u32, junk, projected,
                   arranged_ids, global_from_compact_gid, xys, depths, colors,
                   radii, conic_comps, num_tiles_hit, num_visible,
                   compact_from_depthsort_gid, tiles_hit_sorted, cum_tiles_hit,
                   num_intersects, max_intersects, tile_bins, out_img,
                   final_index>>
    /\ UNCHANGED loader_vars

(***************************************************************************)
(* Stage 6: bin edges                                                      *)
(***************************************************************************)
Tiles == 0 .. (num_tiles - 1)

\* The threads GetTileBinEdges is dispatched over.
BinEdgeDispatch ==
    0 .. (DivCeil(max_intersects, VERTICAL_GROUPS) * VERTICAL_GROUPS - 1)

\* The threads that pass the kernel's guard on num_intersects.
BinEdgeThreads == {i \in BinEdgeDispatch : i < num_intersects}

TileIdAt(i) == ReadAt(tile_id_from_isect, max_intersects, i)

\* The threads that write tile t's start, and those that write its end.
StartWriters(t) ==
    {i \in BinEdgeThreads : TileIdAt(i) = t /\ (i = 0 \/ TileIdAt(i - 1) # t)}

EndWriters(t) ==
    {i \in BinEdgeThreads :
        TileIdAt(i) = t /\ (i = num_intersects - 1 \/ TileIdAt(i + 1) # t)}

\* What a thread-written element of tile_bins can hold after the kernel: an
\* element no thread writes keeps its zero; one that several threads write
\* holds any of their values.
BinChoices(t) ==
    [start : IF StartWriters(t) = {} THEN {0} ELSE StartWriters(t),
     end : IF EndWriters(t) = {} THEN {0} ELSE {i + 1 : i \in EndWriters(t)}]

\* What tile_bins (int_zeros before the kernel) can hold after the kernel.
GetTileBinEdgesResults ==
    LET ch == [t \in Tiles |-> BinChoices(t)]
    IN IF \A t \in Tiles : Cardinality(ch[t]) = 1
       THEN {[t \in Tiles |-> CHOOSE b \in ch[t] : TRUE]}
       ELSE {b \in [Tiles -> UNION {ch[t] : t \in Tiles}] :
                \A t \in Tiles : b[t] \in ch[t]}

GetTileBinEdges ==
    /\ pc = "GetTileBinEdges"
    /\ tile_bins' \in GetTileBinEdgesResults
    /\ pc' = "Rasterize"
    /\ UNCHANGED autodiff_vars
    /\ UNCHANGED <<img_size, prims, background, raster_u32, junk, projected,
                   arranged_ids, global_from_compact_gid, xys, depths, colors,
                   radii, conic_comps, num_tiles_hit, num_visible,
                   compact_from_depthsort_gid, tiles_hit_sorted, cum_tiles_hit,
                   num_intersects, max_intersects, tile_id_from_isect,
                   depthsort_gid_from_isect, out_img, final_index>>
    /\ UNCHANGED loader_vars

(***************************************************************************)
(* Stage 7: rasterize                                                      *)
(***************************************************************************)
Pixels == (0 .. (img_size[1] - 1)) \X (0 .. (img_size[2] - 1))

\* The dispatch with width and height swapped.
RasterizeDispatchSwapped == (0 .. (img_size[2] - 1)) \X (0 .. (img_size[1] - 1))

\* The threads Rasterize is dispatched over: [img_size.x, img_size.y].
RasterizeDispatch == (0 .. (img_size[1] - 1)) \X (0 .. (img_size[2] - 1))

\* The tile of pixel (x, y).
TileOfPixel(x, y) == (y \div TILE_WIDTH) * tile_bounds[1] + (x \div TILE_WIDTH)

\* 1000 * exp(-n)
ExpMilli(n) ==
    IF n >= 8 THEN 0 ELSE <<1000, 368, 135, 50, 18, 7, 2, 1>>[n + 1]

\* The alpha of the Gaussian in compact slot c at pixel (x, y), or -1 when
\* the intersection is skipped (power > 0 or alpha < 1/255).
\* power = -(conic / 32) * (dx * dx + dy * dy) / 2.
AlphaAt(c, x, y) ==
    LET dx == x - xys[c][1]
        dy == y - xys[c][2]
        q == conic_comps[c] * (dx * dx + dy * dy)
        alpha == Clamp((colors[c].a * ExpMilli(q \div 64)) \div ALPHA_ONE, 0, ALPHA_MAX)
    IN IF q < 0 \/ alpha * 255 < ALPHA_ONE THEN -1 ELSE alpha

\* The front to back composite of the intersections i .. end - 1 at pixel
\* (x, y), from transmittance T and accumulated colour acc: the final
\* transmittance and colour, and the index where T fell below the cutoff
\* (end when it never did).
RECURSIVE Composite(_, _, _, _, _, _)
Composite(i, end, T, acc, x, y) ==
    IF i >= end
    THEN [T |-> T, acc |-> acc, idx |-> end]
    ELSE LET d == ReadAt(depthsort_gid_from_isect, max_intersects, i)
             c == ReadAt(compact_from_depthsort_gid, num_points, d)
             alpha == AlphaAt(c, x, y)
             vis == (T * alpha) \div ALPHA_ONE
             next_T == (T * (ALPHA_ONE - alpha)) \div ALPHA_ONE
         IN IF alpha < 0
            THEN Composite(i + 1, end, T, acc, x, y)
            ELSE IF next_T < T_CUTOFF
                 THEN [T |-> next_T, acc |-> acc + vis * colors[c].rgb, idx |-> i]
                 ELSE Composite(i + 1, end, next_T, acc + vis * colors[c].rgb, x, y)

\* What the thread of pixel (x, y) computes: grey level and alpha (both in
\* units of 1/T_ONE) and final index.
RasterizePixel(x, y) ==
    LET bin == tile_bins[TileOfPixel(x, y)]
        r == Composite(bin.start, bin.end, T_ONE, 0, x, y)
    IN [rgb |-> (r.acc + r.T * background) \div ALPHA_ONE, a |-> T_ONE - r.T,
        idx |-> r.idx]

\* pack4x8unorm of one channel given in units of 1/one.
PackUnorm(v, one) == (Clamp(v, 0, one) * 255 + (one \div 2)) \div one

\* out_img and final_index after the kernel.  Both are create_tensor; a
\* thread inside the image writes its pixel of out_img and, when final_index
\* is bound, of final_index.
RasterizeResult ==
    LET px == [p \in Pixels |->
                  IF p \in RasterizeDispatch THEN RasterizePixel(p[1], p[2])
                  ELSE [rgb |-> -1, a |-> -1, idx |-> -1]]
    IN [out_img |->
            [p \in Pixels |->
                IF p \notin RasterizeDispatch
                THEN IF raster_u32 THEN [rgb |-> junk, a |-> junk]
                     ELSE [rgb |-> StaleFloat(T_ONE), a |-> StaleFloat(T_ONE)]
                ELSE IF raster_u32
                     THEN [rgb |-> PackUnorm(px[p].rgb, T_ONE),
                           a |-> PackUnorm(px[p].a, T_ONE)]
                     ELSE [rgb |-> px[p].rgb, a |-> px[p].a]],
        final_index |->
            [p \in Pixels |->
                IF p \in RasterizeDispatch /\ ~raster_u32 THEN px[p].idx ELSE junk]]

Rasterize ==
    /\ pc = "Rasterize"
    /\ LET r == RasterizeResult
       IN /\ out_img' = r.out_img
          /\ final_index' = r.final_index
    /\ pc' = "done"
    /\ UNCHANGED autodiff_vars
    /\ UNCHANGED <<img_size, prims, background, raster_u32, junk, projected,
                   arranged_ids, global_from_compact_gid, xys, depths, colors,
                   radii, conic_comps, num_tiles_hit, num_visible,
                   compact_from_depthsort_gid, tiles_hit_sorted, cum_tiles_hit,
                   num_intersects, max_intersects, tile_id_from_isect,
                   depthsort_gid_from_isect, tile_bins>>
    /\ UNCHANGED loader_vars

(***************************************************************************)
(* The call                                                                *)
(***************************************************************************)
\* The state after the setup of render_forward for an image size of sizes and
\* a scene of scenes: the buffers of the projection exist, nothing has been
\* dispatched.
Setup(sizes, scenes) ==
    /\ img_size \in sizes
    /\ prims \in scenes
    /\ background \in {123}
    /\ raster_u32 \in BOOLEAN
    /\ junk \in 0 .. MaxJunk
    /\ pc = "ProjectSplats"
    /\ projected = {}
    /\ xys = Filled(num_points, <<junk, junk>>)
    /\ depths = create_tensor(num_points)
    /\ colors = Filled(num_points, [rgb |-> StaleFloat(ALPHA_ONE), a |-> StaleFloat(ALPHA_ONE)])
    /\ radii = create_tensor(num_points)
    /\ conic_comps = create_tensor(num_points)
    /\ num_tiles_hit = int_zeros(num_points)
    /\ num_visible = num_visible_init
    /\ global_from_compact_gid = create_tensor(num_points)
    /\ arranged_ids = create_tensor(num_points)
    /\ compact_from_depthsort_gid = <<>>
    /\ tiles_hit_sorted = <<>>
    /\ cum_tiles_hit = <<>>
    /\ num_intersects = 0
    /\ max_intersects = 0
    /\ tile_id_from_isect = <<>>
    /\ depthsort_gid_from_isect = <<>>
    /\ tile_bins = <<>>
    /\ out_img = <<>>
    /\ final_index = <<>>
    /\ rows = [p \in ParentSet |-> NumPoints]
    /\ sh_cols = 3
    /\ tracked = [p \in ParentSet |-> FALSE]
    /\ bwd_groups = {}
    /\ hit_ids = <<>>
    /\ v_xy_scatter = <<>>
    /\ v_conic_scatter = <<>>
    /\ v_colors_scatter = <<>>
    /\ scatter_writer = <<>>
    /\ v_means = <<>>
    /\ v_xys = <<>>
    /\ v_scales = <<>>
    /\ v_quats = <<>>
    /\ v_coeffs = <<>>
    /\ v_opac = <<>>
    /\ grads = [p \in ParentSet |-> NoGrad]
    /\ LoaderIdle

Init == Setup(ImgSizes, Scenes)

Next ==
    \/ \E g \in Gids : ProjectThread(g)
    \/ DepthSort
    \/ TilesPermute
    \/ MapGaussiansToIntersect
    \/ TileSort
    \/ GetTileBinEdges
    \/ Rasterize

Spec == Init /\ [][Next]_vars

(***************************************************************************)
(* The sizing of the intersection buffers                                  *)
(***************************************************************************)
\* The cap 256 * 4 * 65535 is below N * tiles only for a large image or many
\* Gaussians.  With NumPoints Gaussians the image has to have more than
\* MAX_INTERSECTS_CAP / NumPoints tiles, so the calls of this section render
\* images of 4097 x 4096 and 4096 x 4095 tiles and stop where num_intersects
\* and max_intersects are known: the stages after TilesPermute index buffers
\* of max_intersects entries.
\* A Gaussian in front of the camera whose bounding box covers every tile.
Huge == [z |-> 25, x |-> 0, y |-> 0, r |-> 80000, conic |-> 0, opac |-> 1000, rgb |-> 1000]

SizingScenes == [Gids -> {Huge, Behind}]

SizingImgSizes == {<<65552, 65536>>, <<65536, 65520>>}

InitSizing == Setup(SizingImgSizes, SizingScenes)

NextSizing ==
    \/ \E g \in Gids : ProjectThread(g)
    \/ DepthSort
    \/ TilesPermute

SpecSizing == InitSizing /\ [][NextSizing]_vars

(***************************************************************************)
(* The call through the autodiff backend                                   *)
(* (Autodiff::render_gaussians, RenderBackwards::backward)                 *)
(*                                                                         *)
(* Gradients.  The loss gradient v_output is 1 for every channel of every  *)
(* pixel.  A pixel's part in the row of an intersection is the weight      *)
(* T * alpha it composited the intersection with, in units of 0.001; the   *)
(* xy row weighs it with dx, the conic row with dx * dx + dy * dy.         *)
(***************************************************************************)
\* A row order of the same four Gaussians, repeated for more rows.
Pattern(a, b, c, d) == [g \in Gids |-> <<a, b, c, d>>[(g % 4) + 1]]

AutodiffScenes ==
    {Pattern(BigB, SmallC, BigA, Behind),
     Pattern(BigA, BigB, Behind, SmallC),
     Pattern(Behind, SmallC, BigB, BigA),
     Pattern(OffScreen, BigA, Behind, OffScreen),
     Pattern(Behind, OffScreen, OffScreen, Behind)}

\* Row counts of the six inputs and column count of sh_coeffs.  means has
\* num_points rows by definition of num_points.
AllRows == [p \in ParentSet |-> NumPoints]

ShortRows(q) == [p \in ParentSet |-> IF p = q THEN NumPoints - 1 ELSE NumPoints]

Shapes ==
    {[rows |-> AllRows, sh_cols |-> 3],
     [rows |-> AllRows, sh_cols |-> 4],
     [rows |-> AllRows, sh_cols |-> 6],
     [rows |-> AllRows, sh_cols |-> 2],
     [rows |-> ShortRows("xy_dummy"), sh_cols |-> 3],
     [rows |-> ShortRows("log_scales"), sh_cols |-> 3],
     [rows |-> ShortRows("quats"), sh_cols |-> 12],
     [rows |-> ShortRows("sh_coeffs"), sh_cols |-> 3],
     [rows |-> ShortRows("raw_opacities"), sh_cols |-> 3]}

AllTracked == [p \in ParentSet |-> TRUE]

\* The calls: the shapes of the inputs and the nodes that require a gradient.
Calls ==
    {[shape |-> sh, tracked |-> AllTracked] : sh \in Shapes}
    \cup {[shape |-> [rows |-> AllRows, sh_cols |-> 3],
           tracked |-> [p \in ParentSet |-> FALSE]],
          [shape |-> [rows |-> AllRows, sh_cols |-> 3],
           tracked |-> [p \in ParentSet |-> p \in {"means", "sh_coeffs"}]]}

\* (degree + 1).pow(2)
num_sh_coeffs(degree) == (degree + 1) * (degree + 1)

\* The degree of coeffs_per_channel coefficients; -1 stands for the panic.
sh_degree_from_coeffs(coeffs_per_channel) ==
    CASE coeffs_per_channel = 1 -> 0
      [] coeffs_per_channel = 4 -> 1
      [] coeffs_per_channel = 9 -> 2
      [] coeffs_per_channel = 16 -> 3
      [] coeffs_per_channel = 25 -> 4
      [] OTHER -> -1

\* sh_degree_from_coeffs(sh_coeffs.dims()[1] / 3)
sh_degree == sh_degree_from_coeffs(sh_cols \div 3)

\* The tensors DimCheck compares on "D", in the order of the calls.
DimChecked == <<"means", "log_scales", "quats", "sh_coeffs", "raw_opacities">>

\* DimCheck: the first tensor binds "D", every later one has to agree.
DimCheckPasses ==
    \A i \in 1 .. Len(DimChecked) : rows[DimChecked[i]] = rows[DimChecked[1]]

\* Image sizes (width, height) of the calls through the autodiff backend.
AutodiffImgSizes == {<<33, 1>>, <<17, 2>>}

\* The call before anything ran: no buffer exists yet.
InitAutodiff ==
    /\ img_size \in AutodiffImgSizes
    /\ prims \in AutodiffScenes
    /\ background \in {123}
    /\ raster_u32 \in BOOLEAN
    /\ junk \in 0 .. MaxJunk
    /\ \E c \in Calls : /\ rows = c.shape.rows
                        /\ sh_cols = c.shape.sh_cols
                        /\ tracked = c.tracked
    /\ pc = "render_gaussians"
    /\ projected = {}
    /\ num_visible = 0
    /\ num_intersects = 0
    /\ max_intersects = 0
    /\ xys = <<>> /\ depths = <<>> /\ colors = <<>> /\ radii = <<>>
    /\ conic_comps = <<>> /\ num_tiles_hit = <<>>
    /\ global_from_compact_gid = <<>> /\ arranged_ids = <<>>
    /\ compact_from_depthsort_gid = <<>> /\ tiles_hit_sorted = <<>>
    /\ cum_tiles_hit = <<>> /\ tile_id_from_isect = <<>>
    /\ depthsort_gid_from_isect = <<>> /\ tile_bins = <<>>
    /\ out_img = <<>> /\ final_index = <<>>
    /\ bwd_groups = {}
    /\ hit_ids = <<>> /\ v_xy_scatter = <<>> /\ v_conic_scatter = <<>>
    /\ v_colors_scatter = <<>> /\ scatter_writer = <<>>
    /\ v_means = <<>> /\ v_xys = <<>> /\ v_scales = <<>> /\ v_quats = <<>>
    /\ v_coeffs = <<>> /\ v_opac = <<>>
    /\ grads = [p \in ParentSet |-> NoGrad]
    /\ LoaderIdle

\* Autodiff::render_gaussians up to the call of render_forward: the backward
\* op is prepared over the six parents and the SH degree is derived, which
\* panics on an invalid coefficient count.
render_gaussians ==
    /\ pc = "render_gaussians"
    /\ pc' = IF sh_degree < 0 THEN "panic" ELSE "render_forward"
    /\ UNCHANGED autodiff_vars
    /\ UNCHANGED <<img_size, prims, background, raster_u32, junk, projected,
                   arranged_ids, global_from_compact_gid, xys, depths, colors,
                   radii, conic_comps, num_tiles_hit, num_visible,
                   compact_from_depthsort_gid, tiles_hit_sorted, cum_tiles_hit,
                   num_intersects, max_intersects, tile_id_from_isect,
                   depthsort_gid_from_isect, tile_bins, out_img, final_index>>
    /\ UNCHANGED loader_vars

\* render_forward up to the first dispatch: DimCheck, then the buffers of the
\* projection.
render_forward_setup ==
    /\ pc = "render_forward"
    /\ IF DimCheckPasses
       THEN /\ pc' = "ProjectSplats"
            /\ xys' = Filled(num_points, <<junk, junk>>)
            /\ depths' = create_tensor(num_points)
            /\ colors' = Filled(num_points, [rgb |-> StaleFloat(ALPHA_ONE),
                                             a |-> StaleFloat(ALPHA_ONE)])
            /\ radii' = create_tensor(num_points)
            /\ conic_comps' = create_tensor(num_points)
            /\ num_tiles_hit' = int_zeros(num_points)
            /\ num_visible' = num_visible_init
            /\ global_from_compact_gid' = create_tensor(num_points)
            /\ arranged_ids' = create_tensor(num_points)
       ELSE /\ pc' = "panic"
            /\ UNCHANGED <<xys, depths, colors, radii, conic_comps, num_tiles_hit,
                           num_visible, global_from_compact_gid, arranged_ids>>
    /\ UNCHANGED autodiff_vars
    /\ UNCHANGED <<img_size, prims, background, raster_u32, junk, projected,
                   compact_from_depthsort_gid, tiles_hit_sorted, cum_tiles_hit,
                   num_intersects, max_intersects, tile_id_from_isect,
                   depthsort_gid_from_isect, tile_bins, out_img, final_index>>
    /\ UNCHANGED loader_vars

(***************************************************************************)
(* Backward: rasterize backward                                            *)
(***************************************************************************)
\* Channels of out_img: packed into one word, or four floats.
out_dim == IF raster_u32 THEN 1 ELSE 4

\* The shape out_img is created with: [img_size.y, img_size.x, out_dim].
out_img_dims == <<img_size[2], img_size[1], out_dim>>

\* The image size backward derives: uvec2(img_dimgs[1], img_dimgs[0]).
bwd_img_size == <<out_img_dims[2], out_img_dims[1]>>

bwd_tile_bounds ==
    <<DivCeil(bwd_img_size[1], TILE_WIDTH), DivCeil(bwd_img_size[2], TILE_WIDTH)>>

\* The threads RasterizeBackwards is dispatched over: [img_size.x, img_size.y].
BackwardDispatch == (0 .. (bwd_img_size[1] - 1)) \X (0 .. (bwd_img_size[2] - 1))

BwdTileOfPixel(p) ==
    (p[2] \div TILE_WIDTH) * bwd_tile_bounds[1] + (p[1] \div TILE_WIDTH)

BwdTiles == 0 .. (bwd_tile_bounds[1] * bwd_tile_bounds[2] - 1)

\* Reads of tile_bins and final_index; an element that does not exist reads
\* as a stale word.
BinAt(t) == IF t \in DOMAIN tile_bins THEN tile_bins[t] ELSE [start |-> junk, end |-> junk]

FinalIndexAt(p) == IF p \in DOMAIN final_index THEN final_index[p] ELSE junk

\* The last intersection the thread of pixel p walks back from.
LastOf(p) == Min(FinalIndexAt(p), BinAt(BwdTileOfPixel(p)).end - 1)

\* The intersections i .. last that pixel (x, y) does not skip, front to back,
\* each with the transmittance before it, reconstructed forward from T.
RECURSIVE Replay(_, _, _, _, _)
Replay(i, last, T, x, y) ==
    IF i > last
    THEN <<>>
    ELSE LET d == ReadAt(depthsort_gid_from_isect, max_intersects, i)
             c == ReadAt(compact_from_depthsort_gid, num_points, d)
             alpha == AlphaAt(c, x, y)
         IN IF alpha < 0
            THEN Replay(i + 1, last, T, x, y)
            ELSE <<[i |-> i, T |-> T, alpha |-> alpha]>>
                     \o Replay(i + 1, last, (T * (ALPHA_ONE - alpha)) \div ALPHA_ONE, x, y)

Reverse(s) == [k \in 1 .. Len(s) |-> s[Len(s) + 1 - k]]

\* The intersections the thread of pixel p visits, in the order it visits
\* them: back to front from LastOf(p) to the start of the bin of its tile.
BackwardVisit(p) ==
    Reverse(Replay(BinAt(BwdTileOfPixel(p)).start, LastOf(p), T_ONE, p[1], p[2]))

\* The part of pixel (x, y) in the row of intersection at: the weight it
\* composited it with, 0 if it skips it or does not reach it.
RECURSIVE PixelPart(_, _, _, _, _, _)
PixelPart(at, i, last, T, x, y) ==
    IF i > last \/ i > at
    THEN 0
    ELSE LET d == ReadAt(depthsort_gid_from_isect, max_intersects, i)
             c == ReadAt(compact_from_depthsort_gid, num_points, d)
             alpha == AlphaAt(c, x, y)
         IN IF alpha < 0
            THEN PixelPart(at, i + 1, last, T, x, y)
            ELSE IF i = at
                 THEN ((T * alpha) \div ALPHA_ONE) \div 100
                 ELSE PixelPart(at, i + 1, last,
                                (T * (ALPHA_ONE - alpha)) \div ALPHA_ONE, x, y)

\* The pixel columns and rows of tile t that have a thread.
BwdTileXs(t) ==
    LET x0 == (t % bwd_tile_bounds[1]) * TILE_WIDTH
    IN x0 .. Min(x0 + TILE_WIDTH - 1, bwd_img_size[1] - 1)

BwdTileYs(t) ==
    LET y0 == (t \div bwd_tile_bounds[1]) * TILE_WIDTH
    IN y0 .. Min(y0 + TILE_WIDTH - 1, bwd_img_size[2] - 1)

RECURSIVE SumSeq(_, _)
SumSeq(s, k) == IF k = 0 THEN 0 ELSE s[k] + SumSeq(s, k - 1)

\* The sum of f over lo .. hi.
RECURSIVE SumRange(_, _, _)
SumRange(f, lo, hi) == IF hi < lo THEN 0 ELSE f[hi] + SumRange(f, lo, hi - 1)

\* The row the workgroup of tile t computes for intersection i of its bin:
\* the sum over its pixels of the pixel's part, weighted for each buffer.
TileRow(t, i) ==
    LET xs == BwdTileXs(t)
        ys == BwdTileYs(t)
        x0 == (t % bwd_tile_bounds[1]) * TILE_WIDTH
        y0 == (t \div bwd_tile_bounds[1]) * TILE_WIDTH
        c == ReadAt(compact_from_depthsort_gid, num_points,
                    ReadAt(depthsort_gid_from_isect, max_intersects, i))
        start == BinAt(t).start
        part == [x \in xs |-> [y \in ys |->
                    PixelPart(i, start, LastOf(<<x, y>>), T_ONE, x, y)]]
        total(w(_, _)) ==
            SumRange([x \in xs |->
                         SumRange([y \in ys |-> part[x][y] * w(x, y)],
                                  y0, y0 + Cardinality(ys) - 1)],
                     x0, x0 + Cardinality(xs) - 1)
        wxy(x, y) == x - xys[c][1]
        wconic(x, y) == (x - xys[c][1]) * (x - xys[c][1]) + (y - xys[c][2]) * (y - xys[c][2])
        wcol(x, y) == 1
    IN [xy |-> total(wxy), conic |-> total(wconic), col |-> total(wcol)]

\* The write of the row of intersection i of tile t: the slot is the base of
\* its depth-sorted Gaussian plus atomic_add(hit_ids[d], 1).
ScatterWrite(st, t, i) ==
    LET d == ReadAt(depthsort_gid_from_isect, max_intersects, i)
        slot == IsectBase(d) + st.hit[d]
        row == TileRow(t, i)
    IN [hit |-> [st.hit EXCEPT ![d] = @ + 1],
        xy |-> WriteAt(st.xy, max_intersects, slot, row.xy),
        conic |-> WriteAt(st.conic, max_intersects, slot, row.conic),
        col |-> WriteAt(st.col, max_intersects, slot, row.col),
        writer |-> IF slot \in 0 .. (max_intersects - 1)
                   THEN [st.writer EXCEPT ![slot] = @ \cup {[d |-> d, tile |-> t, i |-> i]}]
                   ELSE st.writer]

\* The workgroup of tile t: its bin, back to front from i.
RECURSIVE ScatterTile(_, _, _)
ScatterTile(st, t, i) ==
    IF i < BinAt(t).start THEN st
    ELSE ScatterTile(ScatterWrite(st, t, i), t, i - 1)

\* aux.depthsort_gid_from_isect.shape().dims[0]
bwd_max_intersects == Cardinality(DOMAIN depthsort_gid_from_isect)

\* backward up to the RasterizeBackwards dispatch: the scatter buffers and
\* hit_ids are created.  Runs when the op is tracked and the caller
\* propagates a gradient to the image.
backward ==
    /\ pc = "done"
    /\ \E p \in ParentSet : tracked[p]       \* OpsKind::Tracked
    /\ hit_ids' = int_zeros(num_points)
    /\ v_xy_scatter' = Filled(bwd_max_intersects, StaleFloat(ALPHA_ONE))
    /\ v_conic_scatter' = Filled(bwd_max_intersects, StaleFloat(ALPHA_ONE))
    /\ v_colors_scatter' = Filled(bwd_max_intersects, StaleFloat(ALPHA_ONE))
    /\ scatter_writer' = Filled(bwd_max_intersects, {})
    /\ bwd_groups' = {}
    /\ pc' = "RasterizeBackwards"
    /\ UNCHANGED <<rows, sh_cols, tracked, v_means, v_xys, v_scales, v_quats,
                   v_coeffs, v_opac, grads>>
    /\ UNCHANGED <<img_size, prims, background, raster_u32, junk, projected,
                   arranged_ids, global_from_compact_gid, xys, depths, colors,
                   radii, conic_comps, num_tiles_hit, num_visible,
                   compact_from_depthsort_gid, tiles_hit_sorted, cum_tiles_hit,
                   num_intersects, max_intersects, tile_id_from_isect,
                   depthsort_gid_from_isect, tile_bins, out_img, final_index>>
    /\ UNCHANGED loader_vars

\* One workgroup of RasterizeBackwards: the threads of the pixels of tile t.
\* The workgroups share hit_ids through atomic adds.
RasterizeBackwardsGroup(t) ==
    /\ pc = "RasterizeBackwards"
    /\ t \in BwdTiles \ bwd_groups
    /\ bwd_groups' = bwd_groups \cup {t}
    /\ LET st == ScatterTile([hit |-> hit_ids, xy |-> v_xy_scatter,
                              conic |-> v_conic_scatter, col |-> v_colors_scatter,
                              writer |-> scatter_writer],
                             t, BinAt(t).end - 1)
       IN /\ hit_ids' = st.hit
          /\ v_xy_scatter' = st.xy
          /\ v_conic_scatter' = st.conic
          /\ v_colors_scatter' = st.col
          /\ scatter_writer' = st.writer
    /\ pc' = IF bwd_groups' = BwdTiles THEN "ProjectBackwards" ELSE pc
    /\ UNCHANGED <<rows, sh_cols, tracked, v_means, v_xys, v_scales, v_quats,
                   v_coeffs, v_opac, grads>>
    /\ UNCHANGED <<img_size, prims, background, raster_u32, junk, projected,
                   arranged_ids, global_from_compact_gid, xys, depths, colors,
                   radii, conic_comps, num_tiles_hit, num_visible,
                   compact_from_depthsort_gid, tiles_hit_sorted, cum_tiles_hit,
                   num_intersects, max_intersects, tile_id_from_isect,
                   depthsort_gid_from_isect, tile_bins, out_img, final_index>>
    /\ UNCHANGED loader_vars

(***************************************************************************)
(* Backward: projection backward and the registration of the gradients     *)
(***************************************************************************)
\* The gradient buffers left uninitialised.
float_stale(n) == Filled(n, StaleFloat(ALPHA_ONE))

\* BurnBack::float_zeros: n rows of zeros.
float_zeros(n) == Filled(n, 0)

\* The threads ProjectBackwards is dispatched over: [num_points].
ProjectBackwardsDispatch == 0 .. (num_points - 1)

\* The sum the thread of depth-sorted Gaussian d forms of a scatter buffer:
\* rows cum_tiles_hit[d - 1] .. cum_tiles_hit[d] - 1.
ScatterSum(buf, d) ==
    LET base == IsectBase(d)
        n == cum_tiles_hit[d] - base
    IN SumSeq([k \in 1 .. n |-> ReadAt(buf, max_intersects, base + k - 1)], n)

\* The threads that write row g of the gradients: d < num_visible with
\* global_from_compact_gid[compact_from_depthsort_gid[d]] = g.
GradWriters(g) ==
    {d \in ProjectBackwardsDispatch :
        /\ d < num_visible
        /\ ReadAt(global_from_compact_gid, num_points,
                  ReadAt(compact_from_depthsort_gid, num_points, d)) = g}

\* A gradient buffer after the kernel: zeroed rows, and for the rows that have
\* a writer the value val[d] of that thread.
Scattered(zeroed, val) ==
    [g \in 0 .. (num_points - 1) |->
        IF GradWriters(g) = {} THEN zeroed[g]
        ELSE val[CHOOSE d \in GradWriters(g) : TRUE]]

\* backward from the creation of the gradient buffers to the ProjectBackwards
\* dispatch.
ProjectBackwards ==
    /\ pc = "ProjectBackwards"
    /\ LET sxy == [d \in ProjectBackwardsDispatch |-> ScatterSum(v_xy_scatter, d)]
           sconic == [d \in ProjectBackwardsDispatch |-> ScatterSum(v_conic_scatter, d)]
           scol == [d \in ProjectBackwardsDispatch |-> ScatterSum(v_colors_scatter, d)]
           mean == [d \in ProjectBackwardsDispatch |-> sxy[d] + sconic[d]]
           zeroed == float_zeros(num_points)
       IN /\ v_means' = Scattered(zeroed, mean)
          /\ v_xys' = Scattered(zeroed, sxy)
          /\ v_scales' = Scattered(zeroed, sconic)
          /\ v_quats' = Scattered(zeroed, sconic)
          /\ v_coeffs' = Scattered(zeroed, scol)
          /\ v_opac' = Scattered(zeroed, scol)
    /\ pc' = "register"
    /\ UNCHANGED <<rows, sh_cols, tracked, bwd_groups, hit_ids, v_xy_scatter,
                   v_conic_scatter, v_colors_scatter, scatter_writer, grads>>
    /\ UNCHANGED <<img_size, prims, background, raster_u32, junk, projected,
                   arranged_ids, global_from_compact_gid, xys, depths, colors,
                   radii, conic_comps, num_tiles_hit, num_visible,
                   compact_from_depthsort_gid, tiles_hit_sorted, cum_tiles_hit,
                   num_intersects, max_intersects, tile_id_from_isect,
                   depthsort_gid_from_isect, tile_bins, out_img, final_index>>
    /\ UNCHANGED loader_vars

\* The parents given to prepare with xy_dummy and log_scales exchanged.
PreparedParentsSwapped ==
    <<"means", "log_scales", "xy_dummy", "quats", "sh_coeffs", "raw_opacities">>

\* ops.parents: the nodes in the order they were given to prepare.
PreparedParents == Parents

\* The gradients in the order backward matches them to ops.parents:
\* [mean_parent, xys_parent, log_scales_parent, quats_parent, coeffs_parent,
\*  raw_opacity_parent].
RegisteredGradients ==
    <<[name |-> "v_means", rows |-> v_means, cols |-> 3],
      [name |-> "v_xys", rows |-> v_xys, cols |-> 2],
      [name |-> "v_scales", rows |-> v_scales, cols |-> 3],
      [name |-> "v_quats", rows |-> v_quats, cols |-> 4],
      [name |-> "v_coeffs", rows |-> v_coeffs, cols |-> num_sh_coeffs(sh_degree) * 3],
      [name |-> "v_opac", rows |-> v_opac, cols |-> 1]>>

\* The end of backward: a gradient is registered for every parent that is
\* Some, that is, tracked.
RegisterGradients ==
    /\ pc = "register"
    /\ grads' = [p \in ParentSet |->
                    LET k == CHOOSE k \in 1 .. Len(PreparedParents) : PreparedParents[k] = p
                    IN IF tracked[p] THEN RegisteredGradients[k] ELSE NoGrad]
    /\ pc' = "backward_done"
    /\ UNCHANGED <<rows, sh_cols, tracked, bwd_groups, hit_ids, v_xy_scatter,
                   v_conic_scatter, v_colors_scatter, scatter_writer, v_means,
                   v_xys, v_scales, v_quats, v_coeffs, v_opac>>
    /\ UNCHANGED <<img_size, prims, background, raster_u32, junk, projected,
                   arranged_ids, global_from_compact_gid, xys, depths, colors,
                   radii, conic_comps, num_tiles_hit, num_visible,
                   compact_from_depthsort_gid, tiles_hit_sorted, cum_tiles_hit,
                   num_intersects, max_intersects, tile_id_from_isect,
                   depthsort_gid_from_isect, tile_bins, out_img, final_index>>
    /\ UNCHANGED loader_vars

NextAutodiff ==
    \/ render_gaussians
    \/ render_forward_setup
    \/ \E g \in Gids : ProjectThread(g)
    \/ DepthSort
    \/ TilesPermute
    \/ MapGaussiansToIntersect
    \/ TileSort
    \/ GetTileBinEdges
    \/ Rasterize
    \/ backward
    \/ \E t \in BwdTiles : RasterizeBackwardsGroup(t)
    \/ ProjectBackwards
    \/ RegisterGradients

SpecAutodiff == InitAutodiff /\ [][NextAutodiff]_vars

(***************************************************************************)
(* The tile sort over more tile grids                                      *)
(***************************************************************************)
\* Images of 1, 2, 3 and 8 tiles across and 1 and 2 tiles down, with
\* scenes in which Gaussians cover every tile.  The calls stop after the tile
\* sort.
TilingImgSizes == {<<w, h>> : w \in {1, 17, 33, 113}, h \in {1, 17}}

TilingScenes ==
    {Pattern(Huge, BigA, Huge, BigB),
     Pattern(Behind, Huge, SmallC, Huge)}

InitTiling == Setup(TilingImgSizes, TilingScenes)

NextTiling ==
    \/ \E g \in Gids : ProjectThread(g)
    \/ DepthSort
    \/ TilesPermute
    \/ MapGaussiansToIntersect
    \/ TileSort

SpecTiling == InitTiling /\ [][NextTiling]_vars

(***************************************************************************)
(* The COLMAP loader                                                       *)
(* (crates/brush-dataset/src/formats/colmap.rs, load_dataset)              *)
(*                                                                         *)
(* load_dataset returns two streams.  The view stream maps a closure over  *)
(* the view futures as they complete; the closure owns the counter i and   *)
(* the two view lists.  The init stream reads the COLMAP points and hands  *)
(* positions and colours to Splats::from_raw.  A view is its index in the  *)
(* list read_views returns, a position is the index of its point.  A       *)
(* colour channel is a byte; its float and its SH value are in units of    *)
(* 0.001.                                                                  *)
(***************************************************************************)
\* The render variables, which the loader does not touch.
render_vars ==
    <<img_size, prims, background, raster_u32, junk, pc, projected,
      arranged_ids, global_from_compact_gid, xys, depths, colors, radii,
      conic_comps, num_tiles_hit, num_visible, compact_from_depthsort_gid,
      tiles_hit_sorted, cum_tiles_hit, num_intersects, max_intersects,
      tile_id_from_isect, depthsort_gid_from_isect, tile_bins, out_img,
      final_index, autodiff_vars>>

\* No render is in progress.
RenderIdle ==
    /\ img_size = <<0, 0>>
    /\ prims = <<>>
    /\ background = 0
    /\ raster_u32 = FALSE
    /\ junk = 0
    /\ pc = "idle"
    /\ projected = {}
    /\ arranged_ids = <<>>
    /\ global_from_compact_gid = <<>>
    /\ xys = <<>>
    /\ depths = <<>>
    /\ colors = <<>>
    /\ radii = <<>>
    /\ conic_comps = <<>>
    /\ num_tiles_hit = <<>>
    /\ num_visible = 0
    /\ compact_from_depthsort_gid = <<>>
    /\ tiles_hit_sorted = <<>>
    /\ cum_tiles_hit = <<>>
    /\ num_intersects = 0
    /\ max_intersects = 0
    /\ tile_id_from_isect = <<>>
    /\ depthsort_gid_from_isect = <<>>
    /\ tile_bins = <<>>
    /\ out_img = <<>>
    /\ final_index = <<>>
    /\ rows = <<>>
    /\ sh_cols = 0
    /\ tracked = <<>>
    /\ bwd_groups = {}
    /\ hit_ids = <<>>
    /\ v_xy_scatter = <<>>
    /\ v_conic_scatter = <<>>
    /\ v_colors_scatter = <<>>
    /\ scatter_writer = <<>>
    /\ v_means = <<>>
    /\ v_xys = <<>>
    /\ v_scales = <<>>
    /\ v_quats = <<>>
    /\ v_coeffs = <<>>
    /\ v_opac = <<>>
    /\ grads = <<>>

\* The sequences over S of length at most n.
SeqsUpTo(S, n) == UNION {[1 .. k -> S] : k \in 0 .. n}

\* The values of an Option<u32> load argument that is None or Some(1 .. 3).
OptionArgs == {<<>>} \cup {<<a>> : a \in 1 .. 3}

\* Iterator::step_by(n): the elements at offsets 0, n, 2n, ...
StepBy(seq, n) == [k \in 1 .. ((Len(seq) + n - 1) \div n) |-> seq[(k - 1) * n + 1]]

\* seq without its k-th element.
Without(seq, k) == [j \in 1 .. (Len(seq) - 1) |-> IF j < k THEN seq[j] ELSE seq[j + 1]]

(***************************************************************************)
(* The view stream                                                         *)
(***************************************************************************)
\* What read_views returns: one future per image, each with the outcome its
\* load will have.
ReadViews ==
    {[k \in 1 .. Len(o) |-> [id |-> k - 1, ok |-> o[k]]] : o \in SeqsUpTo(BOOLEAN, MaxViews)}

InitViews ==
    /\ RenderIdle
    /\ load_pc = "load_dataset"
    /\ handles \in ReadViews
    /\ subsample_frames \in {<<>>, <<2>>}
    /\ eval_split_every \in OptionArgs
    /\ view_i = 0
    /\ train_views = <<>>
    /\ eval_views = <<>>
    /\ datasets = <<>>
    /\ points_data = <<>>
    /\ subsample_points = <<>>
    /\ positions = <<>>
    /\ point_colors = <<>>
    /\ from_raw = <<>>

\* load_dataset up to the creation of the stream: the frame subsampling, the
\* empty view lists and the counter.
load_dataset ==
    /\ load_pc = "load_dataset"
    /\ handles' = IF Len(subsample_frames) = 1
                  THEN StepBy(handles, subsample_frames[1])
                  ELSE handles
    /\ train_views' = <<>>
    /\ eval_views' = <<>>
    /\ view_i' = 0
    /\ load_pc' = "stream"
    /\ UNCHANGED <<subsample_frames, eval_split_every, datasets, points_data,
                   subsample_points, positions, point_colors, from_raw>>
    /\ UNCHANGED render_vars

\* i % eval_period != 0
IsEvalViewInverted(n, eval_period) == n % eval_period # 0

\* i % eval_period == 0
IsEvalView(n, eval_period) == n % eval_period = 0

\* Dataset::from_views(train_views.clone(), eval_views.clone())
from_views(train, eval) == [train |-> train, eval |-> eval]

\* The closure of the view stream, run for the item the k-th pending future
\* delivers: stream_fut_parallel yields the results in the order the futures
\* complete.
stream_item(k) ==
    /\ load_pc = "stream"
    /\ k \in 1 .. Len(handles)
    /\ LET view == handles[k]
           to_eval == /\ view.ok
                      /\ Len(eval_split_every) = 1
                      /\ IsEvalView(view_i, eval_split_every[1])
           to_train == view.ok /\ ~to_eval
           train == IF to_train THEN Append(train_views, view.id) ELSE train_views
           eval == IF to_eval THEN Append(eval_views, view.id) ELSE eval_views
       IN /\ train_views' = train
          /\ eval_views' = eval
          /\ datasets' = Append(datasets, from_views(train, eval))
    /\ view_i' = view_i + 1
    /\ handles' = Without(handles, k)
    /\ UNCHANGED <<load_pc, subsample_frames, eval_split_every, points_data,
                   subsample_points, positions, point_colors, from_raw>>
    /\ UNCHANGED render_vars

NextViews ==
    \/ load_dataset
    \/ \E k \in 1 .. MaxViews : stream_item(k)

SpecViews == InitViews /\ [][NextViews]_vars

(***************************************************************************)
(* The init stream                                                         *)
(***************************************************************************)
\* The colours of the points of the model, as bytes.
Rgbs == {<<255, 0, 128>>, <<10, 200, 60>>}

\* What read_points3d returns, in the order values() yields it, twice the
\* same for the one map.  No points file, a read error and an empty map all
\* end the stream without a message.
ReadPoints ==
    {[k \in 1 .. Len(c) |-> [xyz |-> k - 1, rgb |-> c[k]]] : c \in SeqsUpTo(Rgbs, MaxPoints)}

InitPoints ==
    /\ RenderIdle
    /\ load_pc = "init_stream"
    /\ handles = <<>>
    /\ subsample_frames = <<>>
    /\ eval_split_every = <<>>
    /\ view_i = 0
    /\ train_views = <<>>
    /\ eval_views = <<>>
    /\ datasets = <<>>
    /\ points_data \in ReadPoints
    /\ subsample_points \in OptionArgs
    /\ positions = <<>>
    /\ point_colors = <<>>
    /\ from_raw = <<>>

\* p.rgb[c] as f32 / 255.0
ByteToFloat(b) == (b * 1000) \div 255

\* rgb_to_sh: (rgb - 0.5) / 0.2820948
rgb_to_sh(rgb) == ((rgb - 500) * 10000) \div 2821

\* points_data.values().map(|p| p.xyz).collect()
AllPositions == [k \in 1 .. Len(points_data) |-> points_data[k].xyz]

\* points_data.values().flat_map(|p| [rgb_to_sh(..), rgb_to_sh(..), rgb_to_sh(..)]).collect()
AllColors ==
    [k \in 1 .. (3 * Len(points_data)) |->
        rgb_to_sh(ByteToFloat(points_data[((k - 1) \div 3) + 1].rgb[((k - 1) % 3) + 1]))]

\* subsample as usize * 3
ColorStride(subsample) == subsample * 3

\* The body of the init stream.
init_stream ==
    /\ load_pc = "init_stream"
    /\ IF Len(points_data) = 0
       THEN UNCHANGED <<positions, point_colors, from_raw>>
       ELSE LET pos == IF Len(subsample_points) = 1
                       THEN StepBy(AllPositions, subsample_points[1])
                       ELSE AllPositions
                col == IF Len(subsample_points) = 1
                       THEN StepBy(AllColors, ColorStride(subsample_points[1]))
                       ELSE AllColors
            IN /\ positions' = pos
               /\ point_colors' = col
               /\ from_raw' = Append(from_raw, [positions |-> pos, colors |-> col])
    /\ load_pc' = "init_done"
    /\ UNCHANGED <<handles, subsample_frames, eval_split_every, view_i,
                   train_views, eval_views, datasets, points_data,
                   subsample_points>>
    /\ UNCHANGED render_vars

NextPoints == init_stream

SpecPoints == InitPoints /\ [][NextPoints]_vars

(***************************************************************************)
(* Properties                                                              *)
(***************************************************************************)
\* The Gaussians whose projection thread has run and found them visible.
VisibleProjected == {g \in projected : IsVisible(prims[g])}

\* The compact slots claimed so far.
CompactSlots == 0 .. (Min(num_visible, num_points) - 1)

ProjectionDone == pc # "ProjectSplats"

DepthSortDone == pc \notin {"ProjectSplats", "DepthSort"}

\* C1: at any point of the projection, under any interleaving of its
\* threads, num_visible <= N, num_visible counts the visible Gaussians
\* projected so far, and global_from_compact_gid[0..num_visible] holds each
\* of them exactly once and no invisible one.
C1_CompactionIsInjective ==
    /\ num_visible <= num_points
    /\ num_visible = Cardinality(VisibleProjected)
    /\ \A i, j \in CompactSlots :
           i # j => global_from_compact_gid[i] # global_from_compact_gid[j]
    /\ {global_from_compact_gid[i] : i \in CompactSlots} = VisibleProjected

\* C1 witness: the projection has ended, a Gaussian was culled, and two
\* visible ones claimed their slots against the order of their ids.
C1_Witness ==
    /\ ProjectionDone
    /\ VisibleProjected # projected
    /\ num_visible >= 2
    /\ global_from_compact_gid[0] > global_from_compact_gid[1]

\* C3: after the depth sort, the depths read through
\* compact_from_depthsort_gid do not decrease over the first num_visible
\* entries, and these entries are a permutation of 0..num_visible.
C3_DepthSorted ==
    DepthSortDone =>
        /\ \A i \in CompactSlots :
               (i + 1) \in CompactSlots =>
                   depths[compact_from_depthsort_gid[i]]
                       <= depths[compact_from_depthsort_gid[i + 1]]
        /\ {compact_from_depthsort_gid[i] : i \in CompactSlots} = CompactSlots

\* C3 witness: three or more visible Gaussians whose compact order is not
\* their depth order.
C3_Witness ==
    /\ DepthSortDone
    /\ num_visible >= 3
    /\ \E i \in CompactSlots : (i + 1) \in CompactSlots /\ depths[i] > depths[i + 1]

\* C4: every depth in a claimed compact slot is strictly positive, at every
\* point of the call and so when the depth sort reads depths as u32 keys.
C4_DepthsPositive ==
    \A i \in CompactSlots : depths[i] > 0

\* C4 witness: the depth sort is about to run, a Gaussian behind the camera
\* was projected and culled, and another one is visible.
C4_Witness ==
    /\ pc = "DepthSort"
    /\ \E g \in projected : prims[g].z <= 0
    /\ num_visible >= 1

\* The number of intersections: the tile counts of the claimed slots, summed.
M_actual == SumTo(num_tiles_hit, Min(num_visible, num_points) - 1)

TilesPermuteDone == pc \notin {"ProjectSplats", "DepthSort", "TilesPermute"}

BinEdgesDone == pc \in {"Rasterize", "done"}

\* The Gaussians the projection finds visible.
VisibleGids == {g \in Gids : IsVisible(prims[g])}

\* The tiles of a tile rectangle.
TilesOfRect(bb) ==
    {ty * tile_bounds[1] + tx : tx \in bb.minx .. (bb.maxx - 1),
                                ty \in bb.miny .. (bb.maxy - 1)}

\* The visible Gaussians that cover tile t.
Covering(t) ==
    {g \in VisibleGids : t \in TilesOfRect(TileBBox(prims[g].x, prims[g].y, prims[g].r))}

UniqueDepths == \A g, h \in VisibleGids : g # h => prims[g].z # prims[h].z

\* The global id composited at position i of the sorted intersection list.
GlobalIdAt(i) ==
    global_from_compact_gid[compact_from_depthsort_gid[depthsort_gid_from_isect[i]]]

\* C2: with unique depths, the composition order of every tile, in global
\* ids, is the ascending depth order of the visible Gaussians that cover the
\* tile, which the inputs alone fix: no interleaving of the compaction
\* changes it.
C2_TileOrderIsDepthOrder ==
    (BinEdgesDone /\ UniqueDepths) =>
        \A t \in Tiles :
            /\ tile_bins[t].end - tile_bins[t].start = Cardinality(Covering(t))
            /\ \A i \in tile_bins[t].start .. (tile_bins[t].end - 1) :
                  /\ GlobalIdAt(i) \in Covering(t)
                  /\ Cardinality({h \in Covering(t) :
                                     prims[h].z < prims[GlobalIdAt(i)].z})
                         = i - tile_bins[t].start

\* C5: num_intersects, the last element of the prefix sum over all N
\* gathered tile counts, is the sum of the tile counts of the visible
\* Gaussians: the gathered counts from num_visible on are 0.
C5_NumIntersectsIsActual ==
    TilesPermuteDone =>
        /\ num_intersects = M_actual
        /\ \A i \in 0 .. (num_points - 1) : i >= num_visible => tiles_hit_sorted[i] = 0

\* C7: after the bin edges, the positions below M_actual of the sorted
\* intersection list that hold tile t are exactly [start, end) of t's bin,
\* and start <= end.
C7_BinsAreTileRanges ==
    BinEdgesDone =>
        \A t \in Tiles :
            /\ tile_bins[t].start <= tile_bins[t].end
            /\ {i \in 0 .. (M_actual - 1) : tile_id_from_isect[i] = t}
                   = tile_bins[t].start .. (tile_bins[t].end - 1)

\* C8: within every tile's bin the depth-sorted ids strictly increase.
C8_BinsDepthSorted ==
    BinEdgesDone =>
        \A t \in Tiles :
            \A i \in tile_bins[t].start .. (tile_bins[t].end - 2) :
                depthsort_gid_from_isect[i] < depthsort_gid_from_isect[i + 1]

\* The transmittance a float-mode pixel ended with: out_alpha = 1 - T.
FinalT(p) == T_ONE - out_img[p].a

BinOfPixel(p) == tile_bins[TileOfPixel(p[1], p[2])]

\* C9: after the rasterizer in float mode, final_index of every pixel is
\* the end of its tile's bin when the transmittance never fell below the
\* cutoff, and an index inside [start, end) when it did.
C9_FinalIndexInBin ==
    (pc = "done" /\ ~raster_u32) =>
        \A p \in Pixels :
            IF FinalT(p) >= T_CUTOFF
            THEN final_index[p] = BinOfPixel(p).end
            ELSE /\ BinOfPixel(p).start <= final_index[p]
                 /\ final_index[p] < BinOfPixel(p).end

\* A float-mode render with a pixel that saturated inside its bin, a pixel
\* that ran through a non-empty bin without saturating, and a pixel of a
\* tile with an empty bin.
C9_Witness ==
    /\ pc = "done"
    /\ ~raster_u32
    /\ \E p \in Pixels :
          /\ FinalT(p) < T_CUTOFF
          /\ final_index[p] < BinOfPixel(p).end
    /\ \E p \in Pixels :
          /\ FinalT(p) >= T_CUTOFF
          /\ BinOfPixel(p).start < BinOfPixel(p).end
          /\ final_index[p] = BinOfPixel(p).end
    /\ \E p \in Pixels :
          /\ BinOfPixel(p).start = BinOfPixel(p).end
          /\ final_index[p] = BinOfPixel(p).end

\* The largest value of the alpha channel: 1.0, or 255 once packed.
AlphaFull == IF raster_u32 THEN 255 ELSE T_ONE

\* C10: the alpha channel of every pixel of out_img lies in [0, 1].
C10_AlphaInUnitRange ==
    pc = "done" =>
        \A p \in Pixels : 0 <= out_img[p].a /\ out_img[p].a <= AlphaFull

\* A render with a fully transparent pixel, a partly covered pixel and a
\* pixel whose composite stopped at the cutoff.
C10_Witness ==
    /\ pc = "done"
    /\ \E p \in Pixels : out_img[p].a = 0
    /\ \E p \in Pixels : 0 < out_img[p].a /\ out_img[p].a < AlphaFull - (AlphaFull \div 100)
    /\ \E p \in Pixels : out_img[p].a >= AlphaFull - (AlphaFull \div 1000) /\ out_img[p].a <= AlphaFull

\* C6: the number of intersections is at most the length max_intersects of
\* the intersection buffers, and so is the length num_intersects handed to
\* the tile sort and to the bin edge kernel.
C6_IntersectsFitCapacity ==
    TilesPermuteDone =>
        /\ M_actual <= max_intersects
        /\ num_intersects <= max_intersects

(***************************************************************************)
(* Properties of the call through the autodiff backend                     *)
(***************************************************************************)
\* The stages of a call in the order the host runs them.
Stages ==
    <<"render_gaussians", "render_forward", "ProjectSplats", "DepthSort",
      "TilesPermute", "MapGaussiansToIntersect", "TileSort", "GetTileBinEdges",
      "Rasterize", "done", "RasterizeBackwards", "ProjectBackwards", "register",
      "backward_done">>

\* The call has got past stage s (a call that panicked has got past nothing).
Past(s) ==
    \E i, j \in 1 .. Len(Stages) : Stages[i] = s /\ Stages[j] = pc /\ i < j

\* The Gaussians that are in front of the clip plane and whose bounding box
\* meets the image, by the inputs alone.
Survivors ==
    {g \in Gids : /\ prims[g].z >= CLIP_THRESH
                  /\ prims[g].x + prims[g].r >= 0
                  /\ prims[g].x - prims[g].r < img_size[1]
                  /\ prims[g].y + prims[g].r >= 0
                  /\ prims[g].y - prims[g].r < img_size[2]}

\* A pixel that shows the background alone: alpha 0, as the mode stores it.
BackgroundPixel ==
    IF raster_u32
    THEN [rgb |-> PackUnorm(background * (T_ONE \div ALPHA_ONE), T_ONE), a |-> 0]
    ELSE [rgb |-> background * (T_ONE \div ALPHA_ONE), a |-> 0]

\* The six gradient buffers of backward.
GradBuffers == <<v_means, v_xys, v_scales, v_quats, v_coeffs, v_opac>>

C12_InvisibleRowsZero ==
    Past("ProjectBackwards") =>
        /\ \A g \in Gids \ Survivors :
               \A k \in 1 .. Len(GradBuffers) : GradBuffers[k][g] = 0
        /\ \A g \in Gids :
               GradWriters(g) # {} =>
                   \E c \in 0 .. (num_visible - 1) : global_from_compact_gid[c] = g

\* A finished backward over stale memory that is not zero, with a culled
\* Gaussian and a surviving one whose gradient row is not zero.
C12_Witness ==
    /\ pc = "backward_done"
    /\ junk > 0
    /\ Gids \ Survivors # {}
    /\ \E g \in Survivors : v_means[g] # 0 /\ v_opac[g] # 0

\* The gradient buffer that belongs to each input of the call.
OwnGradient(p) ==
    CASE p = "means" -> [name |-> "v_means", rows |-> v_means]
      [] p = "xy_dummy" -> [name |-> "v_xys", rows |-> v_xys]
      [] p = "log_scales" -> [name |-> "v_scales", rows |-> v_scales]
      [] p = "quats" -> [name |-> "v_quats", rows |-> v_quats]
      [] p = "sh_coeffs" -> [name |-> "v_coeffs", rows |-> v_coeffs]
      [] OTHER -> [name |-> "v_opac", rows |-> v_opac]

\* C13: the backward op is over the six parents means, xy_dummy, log_scales,
\* quats, sh_coeffs, raw_opacities in that order; backward runs only when a
\* parent is tracked, and at its end each tracked parent has exactly its own
\* gradient registered and each untracked parent has none.
C13_GradientsMatchParents ==
    /\ Past("done") => \E p \in ParentSet : tracked[p]
    /\ pc # "backward_done" => \A p \in ParentSet : grads[p] = NoGrad
    /\ pc = "backward_done" =>
           \A p \in ParentSet :
               IF tracked[p]
               THEN /\ grads[p].name = OwnGradient(p).name
                    /\ grads[p].rows = OwnGradient(p).rows
               ELSE grads[p] = NoGrad

\* A finished backward of a call in which some parents are tracked and some
\* are not, with gradients that differ from one another.
C13_Witness ==
    /\ pc = "backward_done"
    /\ tracked["means"] /\ tracked["sh_coeffs"]
    /\ ~tracked["xy_dummy"] /\ ~tracked["log_scales"]
    /\ grads["means"].rows # grads["sh_coeffs"].rows
    /\ grads["xy_dummy"] = NoGrad

\* The inputs of the call that have one row per Gaussian.
RowInputs == ParentSet

\* The SH coefficient counts per channel of degrees 0 to 4.
ShCounts == {num_sh_coeffs(degree) : degree \in 0 .. 4}

\* The call must be refused: two of its inputs disagree in row count, or the
\* coefficient count per channel, sh_coeffs.dims()[1] / 3, is not an SH count.
MustPanic ==
    \/ \E p, q \in RowInputs : rows[p] # rows[q]
    \/ (sh_cols \div 3) \notin ShCounts

\* No kernel has been dispatched and nothing is returned.
NothingDispatched ==
    /\ pc \in {"render_gaussians", "render_forward", "panic"}
    /\ projected = {}
    /\ out_img = <<>>

\* C14: a call whose inputs disagree in row count, or whose SH coefficient
\* count per channel is not 1, 4, 9, 16 or 25, panics before any kernel is
\* dispatched: no stage runs and no image is returned.
C14_MismatchPanics == MustPanic => NothingDispatched

\* The sizes the inputs fix: N, the pixel count, the tile count and M_cap.
InputN == rows["means"]

InputPixels == img_size[1] * img_size[2]

InputTiles == DivCeil(img_size[1], TILE_WIDTH) * DivCeil(img_size[2], TILE_WIDTH)

M_cap == Min(InputN * InputTiles, MAX_INTERSECTS_CAP)

\* Buffer buf does not exist yet or has n elements.
Sized(buf, n) == DOMAIN buf = {} \/ Cardinality(DOMAIN buf) = n

\* The buffers with one row per Gaussian, and those with one row per
\* intersection.
PointBuffers ==
    <<xys, depths, colors, radii, conic_comps, num_tiles_hit,
      global_from_compact_gid, arranged_ids, compact_from_depthsort_gid,
      tiles_hit_sorted, cum_tiles_hit, hit_ids, v_means, v_xys, v_scales,
      v_quats, v_coeffs, v_opac>>

IntersectBuffers ==
    <<tile_id_from_isect, depthsort_gid_from_isect, v_xy_scatter,
      v_conic_scatter, v_colors_scatter>>

\* C15: every buffer length and every dispatch size of the forward and the
\* backward pipeline is fixed by N, the image size and the output mode
\* alone, whatever num_visible and the number of intersections are; the
\* intersection buffers and the scatter buffers have length M_cap.
C15_SizesFromInputsOnly ==
    /\ \A k \in 1 .. Len(PointBuffers) : Sized(PointBuffers[k], InputN)
    /\ \A k \in 1 .. Len(IntersectBuffers) : Sized(IntersectBuffers[k], M_cap)
    /\ Sized(tile_bins, InputTiles)
    /\ Sized(out_img, InputPixels)
    /\ Sized(final_index, InputPixels)
    /\ Past("TilesPermute") => max_intersects = M_cap
    /\ Past("render_forward") =>
           /\ ProjectDispatch = 0 .. (InputN - 1)
           /\ MapDispatch = 0 .. (InputN - 1)
           /\ Cardinality(RasterizeDispatch) = InputPixels
    /\ Past("TilesPermute") =>
           BinEdgeDispatch = 0 .. (DivCeil(M_cap, VERTICAL_GROUPS) * VERTICAL_GROUPS - 1)
    /\ Past("done") =>
           /\ Cardinality(BackwardDispatch) = InputPixels
           /\ ProjectBackwardsDispatch = 0 .. (InputN - 1)

\* A finished backward in which fewer than N Gaussians are visible and the
\* intersections are fewer than M_cap, with every buffer created.
C15_Witness ==
    /\ pc = "backward_done"
    /\ 0 < num_visible /\ num_visible < InputN
    /\ 0 < num_intersects /\ num_intersects < M_cap
    /\ Cardinality(DOMAIN depthsort_gid_from_isect) = M_cap
    /\ Cardinality(DOMAIN v_xy_scatter) = M_cap
    /\ Cardinality(DOMAIN v_means) = InputN

\* The alpha of Gaussian g at pixel (x, y) by the inputs, -1 when skipped.
RefAlpha(g, x, y) ==
    LET dx == x - prims[g].x
        dy == y - prims[g].y
        q == prims[g].conic * (dx * dx + dy * dy)
        alpha == Clamp((prims[g].opac * ExpMilli(q \div 64)) \div ALPHA_ONE, 0, ALPHA_MAX)
    IN IF q < 0 \/ alpha * 255 < ALPHA_ONE THEN -1 ELSE alpha

\* The k-th nearest (from 0) of the surviving Gaussians that cover tile t.
RefNth(t, k) ==
    CHOOSE g \in Covering(t) :
        Cardinality({h \in Covering(t) : prims[h].z < prims[g].z}) = k

\* The front to back composite of the Gaussians covering tile t from the
\* k-th on, in depth order, at pixel (x, y); part[g] is the weight g is
\* composited with.
RECURSIVE RefComposite(_, _, _, _, _, _, _)
RefComposite(t, k, T, acc, part, x, y) ==
    IF k >= Cardinality(Covering(t))
    THEN [T |-> T, acc |-> acc, part |-> part]
    ELSE LET g == RefNth(t, k)
             alpha == RefAlpha(g, x, y)
             vis == (T * alpha) \div ALPHA_ONE
             next_T == (T * (ALPHA_ONE - alpha)) \div ALPHA_ONE
             with == [part EXCEPT ![g] = vis \div 100]
         IN IF alpha < 0
            THEN RefComposite(t, k + 1, T, acc, part, x, y)
            ELSE IF next_T < T_CUTOFF
                 THEN [T |-> next_T, acc |-> acc + vis * prims[g].rgb, part |-> with]
                 ELSE RefComposite(t, k + 1, next_T, acc + vis * prims[g].rgb, with, x, y)

RefAt(p) ==
    RefComposite(TileOfPixel(p[1], p[2]), 0, T_ONE, 0, [g \in Gids |-> 0], p[1], p[2])

\* The image the inputs determine, whatever the order of the rows.
RefPixel(p) ==
    LET r == RefAt(p)
        rgb == (r.acc + r.T * background) \div ALPHA_ONE
        a == T_ONE - r.T
    IN IF raster_u32
       THEN [rgb |-> PackUnorm(rgb, T_ONE), a |-> PackUnorm(a, T_ONE)]
       ELSE [rgb |-> rgb, a |-> a]

\* The gradient row of v_xys the inputs determine for Gaussian g.
RefXyRow(g) ==
    LET px == [p \in Pixels |-> RefAt(p).part[g] * (p[1] - prims[g].x)]
    IN SumRange([x \in 0 .. (img_size[1] - 1) |->
                    SumRange([y \in 0 .. (img_size[2] - 1) |-> px[<<x, y>>]],
                             0, img_size[2] - 1)],
                0, img_size[1] - 1)

\* C16: with unique depths the image is the one the set of input Gaussians
\* determines, and row g of the gradient is the one they determine for
\* Gaussian g: permuting the rows of the inputs leaves the image unchanged
\* and permutes the gradient rows alike.
C16_PermutationInvariant ==
    UniqueDepths =>
        /\ Past("Rasterize") => \A p \in Pixels : out_img[p] = RefPixel(p)
        /\ (Past("ProjectBackwards") /\ ~raster_u32) =>
               \A g \in Gids : v_xys[g] = RefXyRow(g)

\* The slot range of depth-sorted Gaussian d by the prefix sum:
\* [cum_tiles_hit[d] - num_tiles_hit[d], cum_tiles_hit[d]), with the tile
\* counts in depth order.
SlotRange(d) == (cum_tiles_hit[d] - tiles_hit_sorted[d]) .. (cum_tiles_hit[d] - 1)

\* The tiles the bounding box of depth-sorted Gaussian d covers.
CoveredTiles(d) == TilesOfRect(IsectBBox(d))

\* C17: the emission writes every slot of [0, M_actual) exactly once and no
\* other slot: the records (tile_id, d) of each d < num_visible, one per
\* covered tile, fill the slots [cum_tiles_hit[d] - num_tiles_hit[d],
\* cum_tiles_hit[d]), the ranges of distinct d are disjoint, and a thread
\* with d >= num_visible writes nothing.
C17_EmissionWritesEachSlotOnce ==
    pc = "TileSort" =>
        /\ \A s \in 0 .. (max_intersects - 1) :
               Cardinality(SlotWriters(s)) = IF s < M_actual THEN 1 ELSE 0
        /\ \A d \in MapDispatch :
               IF d < num_visible
               THEN /\ {s \in 0 .. (max_intersects - 1) : d \in SlotWriters(s)} = SlotRange(d)
                    /\ \A s \in SlotRange(d) : depthsort_gid_from_isect[s] = d
                    /\ {tile_id_from_isect[s] : s \in SlotRange(d)} = CoveredTiles(d)
                    /\ Cardinality(CoveredTiles(d)) = Cardinality(SlotRange(d))
               ELSE \A s \in 0 .. (max_intersects - 1) : d \notin SlotWriters(s)
        /\ \A d, e \in MapWriters : d # e => SlotRange(d) \cap SlotRange(e) = {}

\* The emission has run for a scene with a culled Gaussian and visible ones
\* whose tile counts differ and whose compact order is not the depth order.
C17_Witness ==
    /\ pc = "TileSort"
    /\ 2 <= num_visible /\ num_visible < num_points
    /\ M_actual < max_intersects
    /\ \E d, e \in MapWriters : Cardinality(SlotRange(d)) # Cardinality(SlotRange(e))
    /\ \E d \in MapWriters : compact_from_depthsort_gid[d] # d

\* C18: the bits given to the tile sort, 32 - leading_zeros(num_tiles), are
\* enough for every tile id: num_tiles < 2^bits, every emitted tile id is
\* below num_tiles and so equal to its low `bits` bits, and the sort on those
\* bits leaves the emitted records in the order of their full tile ids.
C18_TileSortBitsSuffice ==
    /\ num_tiles >= 1
    /\ num_tiles < Pow2(TileSortBits)
    /\ pc = "TileSort" =>
           \A s \in 0 .. (M_actual - 1) :
               /\ tile_id_from_isect[s] < num_tiles
               /\ LowBits(U32(tile_id_from_isect[s]), TileSortBits)
                      = U32(tile_id_from_isect[s])
    /\ (pc = "GetTileBinEdges" /\ num_intersects = M_actual) =>
           \A s, u \in 0 .. (M_actual - 1) :
               s < u => tile_id_from_isect[s] <= tile_id_from_isect[u]

\* The tile sort has run on a grid whose tile count is a power of two, with
\* records of the last tile and more records than tiles.
C18_Witness ==
    /\ pc = "GetTileBinEdges"
    /\ num_intersects = M_actual
    /\ num_tiles = Pow2(TileSortBits - 1)
    /\ num_tiles >= 8
    /\ M_actual > num_tiles
    /\ \E s \in 0 .. (M_actual - 1) : tile_id_from_isect[s] = num_tiles - 1

\* The intersections the forward rasterizer composited at pixel (x, y) from
\* i on, front to back, each with the transmittance before it: the ones it
\* did not skip, up to the one at which T fell below the cutoff.
RECURSIVE ForwardTrace(_, _, _, _, _)
ForwardTrace(i, end, T, x, y) ==
    IF i >= end
    THEN <<>>
    ELSE LET d == ReadAt(depthsort_gid_from_isect, max_intersects, i)
             c == ReadAt(compact_from_depthsort_gid, num_points, d)
             alpha == AlphaAt(c, x, y)
             next_T == (T * (ALPHA_ONE - alpha)) \div ALPHA_ONE
             here == <<[i |-> i, T |-> T, alpha |-> alpha]>>
         IN IF alpha < 0
            THEN ForwardTrace(i + 1, end, T, x, y)
            ELSE IF next_T < T_CUTOFF
                 THEN here
                 ELSE here \o ForwardTrace(i + 1, end, next_T, x, y)

ForwardVisit(p) ==
    ForwardTrace(BinOfPixel(p).start, BinOfPixel(p).end, T_ONE, p[1], p[2])

BackwardRan == Past("done")

\* C19: rasterize backward has a thread for every pixel of the image, and
\* the thread of a pixel visits exactly the intersections the forward
\* rasterizer composited for that pixel, in the reverse order, with the
\* transmittance the forward pass had at each of them.
C19_BackwardRetracesForward ==
    BackwardRan =>
        /\ BackwardDispatch = Pixels
        /\ \A p \in Pixels :
               /\ Len(BackwardVisit(p)) = Len(ForwardVisit(p))
               /\ \A k \in 1 .. Len(ForwardVisit(p)) :
                      BackwardVisit(p)[k] = ForwardVisit(p)[Len(ForwardVisit(p)) + 1 - k]

\* The scatter rows projection backward sums for depth-sorted Gaussian d:
\* indices cum_tiles_hit[d - 1] .. cum_tiles_hit[d] - 1 (from 0 for d = 0).
SummedRows(d) == IsectBase(d) .. (cum_tiles_hit[d] - 1)

\* The intersections of the tile bins that belong to depth-sorted Gaussian d.
IntersectionsOf(d) ==
    {i \in 0 .. (max_intersects - 1) :
        /\ \E t \in BwdTiles : BinAt(t).start <= i /\ i < BinAt(t).end
        /\ depthsort_gid_from_isect[i] = d}

\* The writes rasterize backward made to scatter row s.
WritesAt(s) == scatter_writer[s]

\* C20: once rasterize backward has run, the scatter rows projection
\* backward sums for a depth-sorted Gaussian d < num_visible are exactly
\* the rows written for the intersections of d, one row for each, and no row
\* written for another Gaussian lies among them.
C20_SummedRowsAreOwnRows ==
    Past("RasterizeBackwards") =>
        \A d \in 0 .. (num_visible - 1) :
            /\ \A s \in SummedRows(d) :
                   /\ Cardinality(WritesAt(s)) = 1
                   /\ \A w \in WritesAt(s) : w.d = d
            /\ {w.i : w \in UNION {WritesAt(s) : s \in SummedRows(d)}} = IntersectionsOf(d)
            /\ \A s \in 0 .. (max_intersects - 1) :
                   (\E w \in WritesAt(s) : w.d = d) => s \in SummedRows(d)

\* The entries of compact_from_depthsort_gid the depth sort wrote, and the
\* entries the gather reads.
SortWritten == 0 .. (Min(num_visible, num_points) - 1)

GatherReads == 0 .. (num_points - 1)

\* The intersection records the emission wrote, and the records the tile
\* sort and the bin edge kernel read.
EmissionWritten == 0 .. (M_actual - 1)

TileSortReads == 0 .. (Min(num_intersects, max_intersects) - 1)

\* The elements of final_index the rasterizer wrote.
FinalIndexWritten == IF raster_u32 THEN {} ELSE RasterizeDispatch

\* The scatter rows rasterize backward wrote, and the rows projection
\* backward reads.
ScatterWritten == {s \in DOMAIN scatter_writer : scatter_writer[s] # {}}

ScatterReads ==
    UNION {SummedRows(d) \cap (0 .. (max_intersects - 1)) : d \in 0 .. (num_visible - 1)}

\* C21: every element a stage reads was written before, by the stage that
\* produces it or by zero-initialisation: the gather reads only entries the
\* depth sort wrote, the tile sort only records the emission wrote, rasterize
\* backward only elements of final_index the rasterizer wrote, projection
\* backward only scatter rows rasterize backward wrote.
C21_NoUnwrittenRead ==
    /\ Past("TilesPermute") => GatherReads \subseteq SortWritten
    /\ Past("TileSort") => TileSortReads \subseteq EmissionWritten
    /\ Past("done") => BackwardDispatch \subseteq FinalIndexWritten
    /\ Past("ProjectBackwards") => ScatterReads \subseteq ScatterWritten

\* The last slot emission thread d addresses: its range starts at the end
\* of the previous range and holds one record per tile of its rectangle.
EmissionLast(d) == IsectBase(d) + TileArea(IsectBBox(d)) - 1

\* The last record the tile sort and the bin edge kernel address: both are
\* handed num_intersects as the live count.
LiveLast == num_intersects - 1

C23_NoBackwardInU32Mode == raster_u32 => ~BackwardRan

\* C24: for every sh_coeffs input of shape N x C the call accepts, the
\* degree recovered from C gives back C columns
\* (num_sh_coeffs(sh_degree_from_coeffs(C / 3)) * 3 = C), and the gradient
\* registered for sh_coeffs has the shape N x C of the input.
C24_CoeffGradientHasInputShape ==
    /\ Past("render_forward") => num_sh_coeffs(sh_degree) * 3 = sh_cols
    /\ (pc = "backward_done" /\ tracked["sh_coeffs"]) =>
           /\ grads["sh_coeffs"].name = "v_coeffs"
           /\ Cardinality(DOMAIN grads["sh_coeffs"].rows) = rows["sh_coeffs"]
           /\ grads["sh_coeffs"].cols = sh_cols

(***************************************************************************)
(* Properties of the COLMAP loader                                         *)
(***************************************************************************)
\* The SH colour of the point at position x, channel c.
ShOfPoint(x, c) == rgb_to_sh(ByteToFloat(points_data[x + 1].rgb[c]))

\* The colour array holds three values per position, and the triple of the
\* j-th position is the colour of the point at that position.
Aligned(pos, col) ==
    /\ Len(col) = 3 * Len(pos)
    /\ \A j \in 1 .. Len(pos) : \A c \in 1 .. 3 : col[3 * (j - 1) + c] = ShOfPoint(pos[j], c)

\* C25: with subsample_points = s, the colour array handed to
\* Splats::from_raw holds exactly three SH values per retained position, and
\* the triple of the j-th retained position is the rgb_to_sh colour of that
\* same point.
C25_ColorsAlignedWithPositions ==
    Len(subsample_points) = 1 =>
        \A m \in 1 .. Len(from_raw) : Aligned(from_raw[m].positions, from_raw[m].colors)

\* The elements of a sequence.
Elements(seq) == {seq[k] : k \in 1 .. Len(seq)}

\* The future whose result a step of the view stream delivers: the one that
\* is pending before the step and no longer after it.
DeliveredItem == CHOOSE h \in Elements(handles) : h \notin Elements(handles')

\* A step of the view stream delivers an item.
ItemDelivered == load_pc = "stream" /\ load_pc' = "stream" /\ handles' # handles

\* C26: with eval_split_every = p the i-th delivered item, i counted from 0
\* over all delivered items, failed loads included, is added to eval iff it
\* loaded and i % p = 0, to train iff it loaded and i % p # 0, and to neither
\* if it failed; without eval_split_every every loaded view goes to train;
\* the two sets stay disjoint and only grow, and each delivered item emits
\* one Dataset that holds all the views added so far.
C26_EvalSplitByDeliveryIndex ==
    [][ItemDelivered =>
          LET item == DeliveredItem
              nth == Len(datasets)
              split == Len(eval_split_every) = 1
              to_eval == item.ok /\ split /\ nth % eval_split_every[1] = 0
              to_train == item.ok /\ (~split \/ nth % eval_split_every[1] # 0)
          IN /\ eval_views' = IF to_eval THEN eval_views \o <<item.id>> ELSE eval_views
             /\ train_views' = IF to_train THEN train_views \o <<item.id>> ELSE train_views
             /\ Elements(train_views') \cap Elements(eval_views') = {}
             /\ Len(datasets') = nth + 1
             /\ datasets'[nth + 1] = [train |-> train_views', eval |-> eval_views']
             /\ \A n \in 1 .. nth : datasets'[n] = datasets[n]]_vars

\* Four items were delivered with eval_split_every = 3, one of them failed,
\* and both sets hold a view.
C26_Witness ==
    /\ load_pc = "stream"
    /\ eval_split_every = <<3>>
    /\ Len(datasets) = 4
    /\ Len(train_views) + Len(eval_views) = 3
    /\ Len(eval_views) = 2

====
